---- MODULE Spec2Model ----
(***************************************************************************)
(* Model of indexed-line-reader (src/src/lib.rs): the sparse LinesIndex    *)
(* and the IndexedLineReader cursor that resolves line-based seeks on a    *)
(* byte stream.  The stream is a sequence of bytes; a line is what         *)
(* BufRead::lines yields: the bytes up to the next terminator or the end.  *)
(***************************************************************************)
EXTENDS Integers, Sequences, FiniteSets, TLC

\* ------------------------------------------------------------------ bounds
MaxLines == 4        \* most lines the stream ever holds
MaxGranularity == 2  \* largest index granularity tried
MaxSeek == MaxLines + 1  \* largest line number a seek may ask for: past the end

\* ------------------------------------------------------------------- bytes
NL == "\n"
X == "x"

VARIABLES
    stream,      \* the bytes of the underlying file
    index,       \* IndexedLineReader.index : LinesIndex
    pos,         \* IndexedLineReader.pos (current line)
    line_count,  \* IndexedLineReader.line_count (cached total lines)
    reader,      \* byte position of IndexedLineReader.reader in the stream
    seen,        \* lines the file held when the index was last computed
    last         \* the call made by the last step and what it returned

vars == <<stream, index, pos, line_count, reader, seen, last>>

Max(S) == CHOOSE x \in S : \A y \in S : x >= y

\* --------------------------------------------------------- the byte stream
\* The index of the first terminator at index i or later, 0 when there is none.
RECURSIVE NextTerminator(_)
NextTerminator(i) ==
    IF i > Len(stream) THEN 0
    ELSE IF stream[i] = NL THEN i
    ELSE NextTerminator(i + 1)

\* One item of BufRead::lines() read at byte offset p: nothing at or past the
\* end of the stream, else the bytes up to the next terminator (consumed with
\* the line) or up to the end of the stream.
NextLine(p) ==
    IF p >= Len(stream)
    THEN [some |-> FALSE, len |-> 0, next |-> p]
    ELSE LET t == NextTerminator(p + 1)
         IN IF t = 0
            THEN [some |-> TRUE, len |-> Len(stream) - p, next |-> Len(stream)]
            ELSE [some |-> TRUE, len |-> t - (p + 1), next |-> t]

\* SeekFrom::Start(b) on the underlying reader: the position becomes b.
ReaderSeek(b) == b

\* ------------------------------------------------------------- LinesIndex
\* LinesIndex::new
NewLinesIndex(g) ==
    [index |-> << >>, granularity |-> g, line_count |-> 0, byte_count |-> 0]

\* LinesIndex::insert on the BTreeMap
Insert(m, k, b) == [x \in (DOMAIN m) \cup {k} |-> IF x = k THEN b ELSE m[x]]

\* LinesIndex::byte_count_at_pos(..).unwrap_or(0)
ByteCountAtPos(ix, p) == IF p \in DOMAIN ix.index THEN ix.index[p] ELSE 0

\* LinesIndex::last_indexed_pos().unwrap_or(0)
LastIndexedPos(ix) == IF DOMAIN ix.index = {} THEN 0 ELSE Max(DOMAIN ix.index)

\* The body of the for loop of LinesIndex::compute, from enumerate position p
\* with the reader at rp, until lines() is exhausted.
RECURSIVE ComputeLoop(_, _, _, _, _, _)
ComputeLoop(ix, initial_pos, rp, p, lc, bc) ==
    LET line == NextLine(rp) IN
    IF ~line.some
    THEN [index |-> [ix EXCEPT !.line_count = lc, !.byte_count = bc],
          reader |-> rp, ret |-> lc]
    ELSE LET bc2 == bc + line.len + 1
             ix2 == IF (p + 1) % ix.granularity = 0
                    THEN [ix EXCEPT !.index = Insert(ix.index, initial_pos + p + 1, bc2)]
                    ELSE ix
         IN ComputeLoop(ix2, initial_pos, line.next, p + 1, lc + 1, bc2)

\* The reader position after lines 93-96 of compute: seek to the last indexed
\* byte offset and, when that offset is not 0, read and drop one line.
ComputeStart(byte_count) ==
    IF byte_count > 0 THEN NextLine(ReaderSeek(byte_count)).next
    ELSE ReaderSeek(byte_count)

\* LinesIndex::compute
Compute(ix) ==
    LET initial_pos == LastIndexedPos(ix)
        byte_count == ByteCountAtPos(ix, initial_pos)
    IN ComputeLoop(ix, initial_pos, ComputeStart(byte_count), 0, initial_pos, byte_count)

\* ------------------------------------------------------ IndexedLineReader
\* Line numbers are u64.  A line number below 2^63 is the integer itself; a
\* negative integer v stands for the u64 value 2^64 + v, which is what a
\* subtraction that wraps around leaves.  Sums and differences of the
\* integers are then those of the u64 values modulo 2^64.
\* 2^64 modulo g, by squaring 2 six times.
TwoTo64Mod(g) ==
    LET Sq(x) == (x * x) % g
    IN Sq(Sq(Sq(Sq(Sq(Sq(2 % g))))))

\* The u64 remainder v % g of a line number.
ModU64(v, g) == IF v >= 0 THEN v % g ELSE (TwoTo64Mod(g) + (v % g)) % g

\* The cursor as a record, so that the seek cases can call each other.
Cursor == [index |-> index, pos |-> pos, line_count |-> line_count, reader |-> reader]

\* IndexedLineReader::new
NewCursor(g) ==
    [index |-> NewLinesIndex(g), pos |-> 0, line_count |-> 0, reader |-> 0]

\* IndexedLineReader::compute_index
ComputeIndex(c) ==
    LET r == Compute(c.index)
    IN [c |-> [c EXCEPT !.index = r.index, !.reader = r.reader, !.line_count = r.ret],
        ret |-> r.ret]

\* IndexedLineReader::seek_to_index
SeekToIndex(c, indexed_pos) ==
    LET byte_count == ByteCountAtPos(c.index, indexed_pos)
    IN [c |-> [c EXCEPT !.pos = indexed_pos, !.reader = ReaderSeek(byte_count)],
        ret |-> byte_count]

\* seek_to_closest_index for SeekFrom::Start that does not round the line down
\* to its index boundary.
SeekToClosestIndexStartUnrounded(c, p) ==
    [c |-> [c EXCEPT !.pos = p,
                     !.reader = IF p \in DOMAIN c.index.index THEN c.index.index[p] ELSE 0],
     ret |-> IF p \in DOMAIN c.index.index THEN c.index.index[p] ELSE 0]

\* IndexedLineReader::seek_to_closest_index, SeekFrom::Start
SeekToClosestIndexStart(c, p) ==
    LET extra_lines == ModU64(p, c.index.granularity)
        closest_index == p - extra_lines
    IN SeekToIndex(c, closest_index)

\* seek_to_closest_index for SeekFrom::Current that counts from the current
\* line instead of from the boundary below it.
SeekToClosestIndexCurrentFromPos(c, p) ==
    LET extra_lines == p % c.index.granularity
        closest_index == c.pos + p - extra_lines
    IN SeekToIndex(c, closest_index)

\* IndexedLineReader::seek_to_closest_index, SeekFrom::Current
SeekToClosestIndexCurrent(c, p) ==
    LET extra_lines == ModU64(p, c.index.granularity)
        extra_lines_from_current_pos == ModU64(c.pos, c.index.granularity)
        previous_closest_index == c.pos - extra_lines_from_current_pos
        closest_index == previous_closest_index + p - extra_lines
    IN SeekToIndex(c, closest_index)

\* seek_forward that does not count down the lines it was asked for and reads
\* to the end of the stream
RECURSIVE SeekForwardToEnd(_, _, _)
SeekForwardToEnd(c, lines_left, extra_byte_count) ==
    LET line == NextLine(c.reader) IN
    IF ~line.some
    THEN [c |-> c, ret |-> extra_byte_count]
    ELSE SeekForwardToEnd([c EXCEPT !.pos = c.pos + 1, !.reader = line.next],
                          lines_left - 1, extra_byte_count + line.len + 1)

\* IndexedLineReader::seek_forward: read up to `lines` lines, stopping early
\* at the end of the stream; returns the bytes counted.
RECURSIVE SeekForward(_, _, _)
SeekForward(c, lines_left, extra_byte_count) ==
    LET line == NextLine(c.reader) IN
    IF ~line.some
    THEN [c |-> c, ret |-> extra_byte_count]
    ELSE LET c2 == [c EXCEPT !.pos = c.pos + 1, !.reader = line.next]
             b2 == extra_byte_count + line.len + 1
         IN IF lines_left - 1 = 0
            THEN [c |-> c2, ret |-> b2]
            ELSE SeekForward(c2, lines_left - 1, b2)

\* Seek requests: SeekFrom::Start(n), SeekFrom::Current(n), SeekFrom::End(n)
AbsKeepsSign(n) == n
Abs(n) == IF n < 0 THEN -n ELSE n
Start(n) == [kind |-> "Start", n |-> n]
Current(n) == [kind |-> "Current", n |-> n]
End(n) == [kind |-> "End", n |-> n]

\* <IndexedLineReader as Seek>::seek.  `ok` is FALSE when a line subtraction
\* (lines 258, 263) leaves the range of u64.  `boundary` is the line the call
\* last repositioned the stream to with seek_to_index, `scanned` the number of
\* lines seek_forward consumed after it.
RECURSIVE Seek(_, _)
Seek(c0, req) ==
    LET c == ComputeIndex(c0).c
        g == c.index.granularity
    IN CASE req.kind = "Start" ->
              LET extra_lines == ModU64(req.n, g)
                  r == SeekToClosestIndexStart(c, req.n)
              IN IF extra_lines > 0
                 THEN Seek(r.c, Current(extra_lines))
                 ELSE [c |-> r.c, ret |-> r.ret, ok |-> TRUE,
                       boundary |-> r.c.pos, scanned |-> 0]
         [] req.kind = "Current" /\ req.n >= 0 ->
              LET extra_lines == ModU64(req.n, g)
                  extra_lines_from_current_pos == ModU64(c.pos, g)
                  r == SeekToClosestIndexCurrent(c, req.n)
              IN IF extra_lines + extra_lines_from_current_pos > 0
                 THEN LET f == SeekForward(r.c, extra_lines + extra_lines_from_current_pos, 0)
                      IN [c |-> f.c, ret |-> f.ret, ok |-> TRUE,
                          boundary |-> r.c.pos, scanned |-> f.c.pos - r.c.pos]
                 ELSE [c |-> r.c, ret |-> r.ret, ok |-> TRUE,
                       boundary |-> r.c.pos, scanned |-> 0]
         [] req.kind = "Current" /\ req.n < 0 ->
              IF c.pos >= 0 /\ c.pos - Abs(req.n) < 0
              THEN [c |-> c, ret |-> 0, ok |-> FALSE, boundary |-> c.pos, scanned |-> 0]
              ELSE Seek(c, Start(c.pos - Abs(req.n)))
         [] req.kind = "End" ->
              IF c.line_count - Abs(req.n) < 0
              THEN [c |-> c, ret |-> 0, ok |-> FALSE, boundary |-> c.pos, scanned |-> 0]
              ELSE Seek(c, Start(c.line_count - Abs(req.n)))

\* ---------------------------------------------------------------- actions
Granularities == 1..MaxGranularity

\* A line as written to the file: its content and the terminator.  Lines come
\* in two lengths, so that byte offsets tell lines apart.
LineBytes == {<< >>, <<X>>}
TerminatedLines == {l \o <<NL>> : l \in LineBytes}

\* The number of items lines() yields from the start of the stream s.
NumLinesOf(s) ==
    Cardinality({i \in 1..Len(s) : s[i] = NL})
        + (IF Len(s) > 0 /\ s[Len(s)] # NL THEN 1 ELSE 0)
NumLines == NumLinesOf(stream)

RECURSIVE Files(_)
Files(n) ==
    IF n = 0 THEN {<< >>}
    ELSE Files(n - 1) \cup {f \o l : f \in {h \in Files(n - 1) : NumLinesOf(h) = n - 1},
                                     l \in TerminatedLines}

SetCursor(c) ==
    /\ index' = c.index
    /\ pos' = c.pos
    /\ line_count' = c.line_count
    /\ reader' = c.reader

\* The record of a call: the operation, its request, the line a relative
\* request counts from (the current line before a Current request), what the
\* call returned, and whether the file had grown since the index was last
\* computed over a file that was not empty.
Call(op, req, ret, grown) ==
    [op |-> op, req |-> req, from |-> IF req.kind = "Current" THEN pos ELSE 0,
     ret |-> ret, grown |-> grown]

Grown == seen > 0 /\ NumLines > seen

\* The requests tried in a state: every target line up to MaxSeek, and every
\* backward or end-relative distance that fits the counts the cursor holds.
Requests ==
    {Start(n) : n \in 0..MaxSeek}
        \cup {Current(n) : n \in (-pos)..(MaxSeek - pos)}
        \cup {End(n) : n \in (-MaxLines)..MaxLines}

\* A file of terminated lines, possibly followed by a last line that has no
\* terminator yet, wrapped by IndexedLineReader::new.
Init ==
    /\ \E f \in Files(MaxLines), t \in LineBytes :
          /\ NumLinesOf(f \o t) <= MaxLines
          /\ stream = f \o t
    /\ \E g \in Granularities :
          /\ index = NewCursor(g).index
          /\ pos = NewCursor(g).pos
          /\ line_count = NewCursor(g).line_count
          /\ reader = NewCursor(g).reader
    /\ seen = 0
    /\ last = Call("new", Start(0), 0, FALSE)

\* reader.compute_index()
DoComputeIndex ==
    LET r == ComputeIndex(Cursor)
    IN /\ SetCursor(r.c)
       /\ seen' = NumLines
       /\ last' = Call("compute_index", Start(0), r.ret, Grown)
       /\ UNCHANGED stream

\* reader.seek(req), for the requests whose line arithmetic stays in u64
DoSeek ==
    \E req \in Requests :
        LET r == Seek(Cursor, req)
        IN /\ r.ok
           /\ SetCursor(r.c)
           /\ seen' = NumLines
           /\ last' = Call("seek", req, r.ret, Grown)
           /\ UNCHANGED stream

\* One line read through the BufRead pass-through (fill_buf / consume), as
\* reader.lines().next() does.
DoReadLine ==
    /\ NextLine(reader).some
    /\ reader' = NextLine(reader).next
    /\ last' = Call("read_line", Start(0), NextLine(reader).len, FALSE)
    /\ UNCHANGED <<stream, index, pos, line_count, seen>>

\* A raw Read::read into a buffer of one byte through the pass-through.
DoRead ==
    /\ reader < Len(stream)
    /\ reader' = reader + 1
    /\ last' = Call("read", Start(0), 1, FALSE)
    /\ UNCHANGED <<stream, index, pos, line_count, seen>>

\* Every line of the file ends with a terminator.
Terminated == IF Len(stream) = 0 THEN TRUE ELSE stream[Len(stream)] = NL

\* Another process appends one terminated line to a file of whole lines.
AppendLine ==
    \E l \in TerminatedLines :
        /\ Terminated
        /\ NumLines < MaxLines
        /\ stream' = stream \o l
        /\ last' = Call("append", Start(0), 0, FALSE)
        /\ UNCHANGED <<index, pos, line_count, reader, seen>>

\* The cursor's operations on a file that does not change.
NextStatic == DoComputeIndex \/ DoSeek \/ DoReadLine \/ DoRead
SpecStatic == Init /\ [][NextStatic]_vars

\* The same with the file growing between calls.
Next == DoComputeIndex \/ DoSeek \/ DoReadLine \/ DoRead \/ AppendLine
Spec == Init /\ [][Next]_vars

\* ------------------------------------------- clearing and restoring
\* IndexedLineReader::clear_index -> LinesIndex::clear: the entries are
\* cleared; nothing else is assigned.
ClearIndex(c) == [c EXCEPT !.index.index = << >>]

\* IndexedLineReader::get_index: the caller clones the index it refers to.
GetIndex(c) == c.index

\* restore_index with only the snapshot's entries installed
RestoreIndexEntriesOnly(c, ix) == [c EXCEPT !.index.index = ix.index]
\* IndexedLineReader::restore_index: the whole LinesIndex is replaced.
RestoreIndex(c, ix) == [c EXCEPT !.index = ix]

\* reader.clear_index()
DoClearIndex ==
    /\ SetCursor(ClearIndex(Cursor))
    /\ last' = Call("clear_index", Start(0), 0, FALSE)
    /\ UNCHANGED <<stream, seen>>

\* The index is cloned from the cursor, a new cursor of any granularity is
\* built over the same file and the clone is installed in it; the new cursor
\* is the one followed from here on.
DoRestoreIndex ==
    \E g \in Granularities :
        /\ SetCursor(RestoreIndex(NewCursor(g), GetIndex(Cursor)))
        /\ last' = Call("restore_index", Start(0), 0, FALSE)
        /\ UNCHANGED <<stream, seen>>

\* The cursor's operations, index clearing and restoring included, on a file
\* that does not change; the stream is read through the cursor line by line.
NextIndex ==
    DoComputeIndex \/ DoSeek \/ DoReadLine \/ DoClearIndex \/ DoRestoreIndex
SpecIndex == Init /\ [][NextIndex]_vars

\* ------------------------------------------------------ stream failures
\* The stream operations of one compute are numbered in the order the code
\* makes them: 1 is the seek of line 93, then the read of the dropped line
\* (line 95, made only from a non-zero offset), then one read for every
\* lines().next() of the loop, the last of which finds the end of the stream.
\* In a call with fault `fail`, the operation numbered `fail` returns an error;
\* a failed operation leaves the stream position where it was.
Faults == 1..(MaxLines + 3)

\* compute returning Err(err) from the loop, with the counts stored anyway
ComputeFailedStoringCounts(ix, rp, lc, bc, op) ==
    [index |-> [ix EXCEPT !.line_count = lc, !.byte_count = bc],
     reader |-> rp, ret |-> 0, err |-> TRUE, ops |-> op]
\* LinesIndex::compute returning Err(err) (lines 93, 103-105): the entries
\* inserted so far stay, self.line_count and self.byte_count are not assigned.
ComputeFailed(ix, rp, lc, bc, op) ==
    [index |-> ix, reader |-> rp, ret |-> 0, err |-> TRUE, ops |-> op]

\* The loop of LinesIndex::compute, whose next read is operation `op`.
RECURSIVE ComputeLoopFault(_, _, _, _, _, _, _, _)
ComputeLoopFault(ix, initial_pos, rp, p, lc, bc, op, fail) ==
    LET line == NextLine(rp) IN
    IF op = fail
    THEN ComputeFailed(ix, rp, lc, bc, op)
    ELSE IF ~line.some
    THEN [index |-> [ix EXCEPT !.line_count = lc, !.byte_count = bc],
          reader |-> rp, ret |-> lc, err |-> FALSE, ops |-> op]
    ELSE LET bc2 == bc + line.len + 1
             ix2 == IF (p + 1) % ix.granularity = 0
                    THEN [ix EXCEPT !.index = Insert(ix.index, initial_pos + p + 1, bc2)]
                    ELSE ix
         IN ComputeLoopFault(ix2, initial_pos, line.next, p + 1, lc + 1, bc2, op + 1, fail)

\* LinesIndex::compute on a stream at position rp whose operation `fail`
\* fails.  The result of the read of line 95 is not looked at: when it fails,
\* the loop starts at the boundary.
ComputeFault(ix, rp, fail) ==
    LET initial_pos == LastIndexedPos(ix)
        byte_count == ByteCountAtPos(ix, initial_pos)
    IN IF fail = 1
       THEN ComputeFailed(ix, rp, initial_pos, byte_count, 1)
       ELSE IF byte_count > 0
            THEN ComputeLoopFault(ix, initial_pos,
                                  IF fail = 2 THEN ReaderSeek(byte_count)
                                  ELSE NextLine(ReaderSeek(byte_count)).next,
                                  0, initial_pos, byte_count, 3, fail)
            ELSE ComputeLoopFault(ix, initial_pos, ReaderSeek(byte_count),
                                  0, initial_pos, byte_count, 2, fail)

\* IndexedLineReader::compute_index: and_then assigns self.line_count only on Ok.
ComputeIndexFault(c, fail) ==
    LET r == ComputeFault(c.index, c.reader, fail)
        c1 == [c EXCEPT !.index = r.index, !.reader = r.reader]
    IN [c |-> IF r.err THEN c1 ELSE [c1 EXCEPT !.line_count = r.ret],
        ret |-> r.ret, err |-> r.err, ops |-> r.ops]

\* reader.compute_index() during which one stream operation fails
DoComputeIndexFault ==
    \E fail \in Faults :
        LET r == ComputeIndexFault(Cursor, fail)
        IN /\ fail <= r.ops
           /\ SetCursor(r.c)
           /\ seen' = IF r.err THEN seen ELSE NumLines
           /\ last' = [op |-> "compute_index_fault", req |-> Start(0), from |-> 0,
                       ret |-> r.ret, grown |-> FALSE,
                       fault |-> fail, err |-> r.err, ops |-> r.ops]
           /\ UNCHANGED stream

\* The cursor's operations on a file that does not change, read line by line
\* through a stream whose operations can fail during compute_index.
NextFault == DoComputeIndex \/ DoSeek \/ DoReadLine \/ DoComputeIndexFault
SpecFault == Init /\ [][NextFault]_vars

\* -------------------------------------------------- out-of-range requests
\* The line subtractions of Seek::seek (self.pos - pos.abs() as u64, line 258;
\* self.line_count - pos.abs() as u64, line 263) are not guarded.  Below zero,
\* a build with overflow checks panics there and a build without them goes on
\* with the difference modulo 2^64.
Builds == {"checked", "unchecked"}

\* Seek::seek going on with the wrapped difference: self.seek(Start(pos)).
SeekWrapped(c0, req) ==
    LET c == ComputeIndex(c0).c
        minuend == IF req.kind = "Current" THEN c.pos ELSE c.line_count
    IN Seek(c, Start(minuend - Abs(req.n)))

\* Requests that reach below line 0 from the current state.
OutOfRangeRequests ==
    {req \in {Current(-d) : d \in (pos + 1)..(pos + MaxGranularity + 1)}
                \cup {End(n) : n \in (-(MaxLines + 1))..(MaxLines + 1)} :
        ~Seek(Cursor, req).ok}

\* reader.seek(req) for a request below line 0: compute_index has run; then
\* the call panics (and the caller goes on with the cursor as it is), or
\* returns from the seek to the wrapped line.
DoSeekOutOfRange ==
    /\ pos >= 0
    /\ \E req \in OutOfRangeRequests, build \in Builds :
          /\ IF build = "checked"
             THEN /\ SetCursor(ComputeIndex(Cursor).c)
                  /\ last' = Call("seek_panic", req, 0, Grown)
             ELSE /\ SetCursor(SeekWrapped(Cursor, req).c)
                  /\ last' = Call("seek", req, SeekWrapped(Cursor, req).ret, Grown)
          /\ seen' = NumLines
          /\ UNCHANGED stream

\* The cursor's operations on a file that does not change, requests that
\* reach below line 0 included.
NextWrap == DoComputeIndex \/ DoSeek \/ DoReadLine \/ DoRead \/ DoSeekOutOfRange
SpecWrap == Init /\ [][NextWrap]_vars

\* ------------------------------------------------------------- properties
\* The byte offset of the first byte after k lines of the file, 0 <= k <=
\* NumLines: where line k (0-based) starts, or the end of the file.
LineStart(k) ==
    LET nls == {i \in 1..Len(stream) : stream[i] = NL}
    IN IF k = 0 THEN 0
       ELSE IF k <= Cardinality(nls)
            THEN CHOOSE i \in nls : Cardinality({j \in nls : j <= i}) = k
            ELSE Len(stream)

\* A reader at byte offset rp reads line k next; for k = NumLines, it reads
\* nothing more.
AtLine(rp, k) ==
    IF k < NumLines THEN rp = LineStart(k) ELSE k = NumLines /\ rp >= Len(stream)

\* Two reader positions from which the same bytes are read.
SamePlace(r1, r2) == r1 = r2 \/ (r1 >= Len(stream) /\ r2 >= Len(stream))

LastSeek(kind) == last.op = "seek" /\ last.req.kind = kind

\* C1: on a file of N lines that does not change, every seek(Start(k)) with
\* 0 <= k < N leaves current_line_position() = k and the reader at the first
\* byte of line k.
C1_StartRoundTrip ==
    (LastSeek("Start") /\ last.req.n < NumLines)
        => (pos = last.req.n /\ reader = LineStart(last.req.n))

\* C1 witness: a seek(Start(k)) past the first index boundary, to a line that
\* is not a boundary, after the index had been computed before.
C1_Witness ==
    /\ LastSeek("Start")
    /\ last.req.n < NumLines
    /\ last.req.n > index.granularity
    /\ last.req.n % index.granularity # 0
    /\ index.granularity > 1
    /\ pos = last.req.n

\* C2: on a file of N lines that does not change, seek(End(n)) with
\* 0 <= n <= N leaves the reader on line N - n, whatever calls came before.
C2_EndFromTotal ==
    (LastSeek("End") /\ last.req.n >= 0 /\ last.req.n <= NumLines)
        => AtLine(reader, NumLines - last.req.n)

\* C3: seek(Current(d)) with d >= 0 from current line c, c + d <= N, leaves
\* current_line_position() = c + d and the reader on line c + d.
C3_CurrentForward ==
    (LastSeek("Current") /\ last.req.n >= 0 /\ last.from + last.req.n <= NumLines)
        => (pos = last.from + last.req.n /\ AtLine(reader, last.from + last.req.n))

\* C4: seek(Current(d)) with d < 0 and |d| <= current_line has the outcome of
\* seek(Start(current_line - |d|)) from the same state: the same current line,
\* reader position and index.
C4_CurrentBackIsStart ==
    \A d \in 1..MaxSeek :
        d <= pos => Seek(Cursor, Current(-d)).c = Seek(Cursor, Start(pos - d)).c

\* C5: on a file that does not change, for lines a and b in 0..N, seek(Start(a))
\* then seek(Current(b - a)) ends on the same line and the same
\* current_line_position() as seek(Start(b)) alone.
C5_Composable ==
    LET alone == [b \in 0..NumLines |-> Seek(Cursor, Start(b))]
    IN \A a \in 0..NumLines :
          LET s1 == alone[a]
          IN \A b \in 0..NumLines :
                LET s2 == Seek(s1.c, Current(b - a))
                IN /\ s1.ok /\ s2.ok /\ alone[b].ok
                   /\ s2.c.pos = alone[b].c.pos
                   /\ SamePlace(s2.c.reader, alone[b].c.reader)

\* C5 witness: a seek(Current(b - a)) backwards from a line a that is not a
\* boundary, reached by an earlier seek, to a line b > 0 that is not a
\* boundary either, where it leaves the reader at the start of line b.
C5_Witness ==
    /\ LastSeek("Current")
    /\ last.req.n < 0
    /\ last.from % index.granularity # 0
    /\ pos = last.from + last.req.n
    /\ pos > 0
    /\ pos % index.granularity # 0
    /\ pos < NumLines
    /\ reader = LineStart(pos)

\* C6: seek(End(n)) and seek(End(-n)) from the same state seek to the same
\* line, for every n >= 0 within the file.
C6_EndSign ==
    \A n \in 0..MaxLines :
        LET a == Seek(Cursor, End(n))
            b == Seek(Cursor, End(-n))
        IN /\ a.ok = b.ok
           /\ a.ok => (a.c.pos = b.c.pos /\ a.c.reader = b.c.reader)

\* C6 witness: a seek(End(-n)), n > 0, that left the cursor n lines before the
\* end of the file, on a line that is not an index boundary.
C6_Witness ==
    /\ LastSeek("End")
    /\ last.req.n < 0
    /\ pos = NumLines + last.req.n
    /\ pos % index.granularity # 0
    /\ reader = LineStart(pos)

\* C7: a compute on a file with no new data since the last compute leaves the
\* index's entries, line_count and byte_count unchanged.
C7_ComputeIdempotent ==
    last.op = "compute_index" => Compute(index).index = index

\* C8: after the index was computed over N lines, M lines were appended and
\* the index was computed again, the entries are those of a single computation
\* over the N+M lines.
C8_IncrementalConsistent ==
    (last.op = "compute_index" /\ last.grown /\ Terminated)
        => index.index = Compute(NewLinesIndex(index.granularity)).index.index

\* C9: a seek(Start(k)), k < N+M, made after lines were appended to a file
\* whose index had been computed, leaves the reader on line k.
C9_SeekAfterAppend ==
    (LastSeek("Start") /\ last.grown /\ last.req.n < NumLines)
        => reader = LineStart(last.req.n)

\* C10: every key k of the index entries is a multiple of the granularity, at
\* most line_count, and maps to the byte length of the first k lines.
C10_IndexInvariant ==
    Terminated =>
        \A k \in DOMAIN index.index :
            /\ k % index.granularity = 0
            /\ k <= index.line_count
            /\ k <= NumLines
            /\ index.index[k] = LineStart(k)

\* C11: across any compute on a stream that has not shrunk, every key recorded
\* before keeps its byte offset, and line_count and byte_count after the call
\* are at least what they were before it.
C11_AppendOnly ==
    [][(last'.op = "compute_index")
          => /\ \A k \in DOMAIN index.index :
                   k \in DOMAIN index'.index /\ index'.index[k] = index.index[k]
             /\ index'.line_count >= index.line_count
             /\ index'.byte_count >= index.byte_count]_vars

\* C12: every successful seek returns the resulting absolute byte offset of
\* the stream, the offset of the first byte of the target line, for every
\* kind of request and for targets that are not multiples of the granularity.
\* Stated for seek(Start(k)) to a line k of the file.
C12_ReturnsOffset ==
    (LastSeek("Start") /\ last.req.n < NumLines) => last.ret = reader

\* C13: clear_index drops every entry and resets the index's line_count and
\* byte_count to zero; the current line and the stream position do not change.
C13_ClearResets ==
    [][(last'.op = "clear_index")
          => /\ DOMAIN index'.index = {}
             /\ index'.line_count = 0
             /\ index'.byte_count = 0
             /\ pos' = pos
             /\ reader' = reader]_vars

\* Two seek outcomes that land on the same line.
SameLanding(a, b) ==
    /\ a.ok = b.ok
    /\ a.ok => (a.c.pos = b.c.pos /\ SamePlace(a.c.reader, b.c.reader))

\* C14: with the index cloned from a cursor that has just computed it and
\* installed by restore_index in a new cursor over the same file, every seek(Start(k)), 0 <= k < N, and
\* seek(End(n)), 0 <= n <= N, lands on the same line on the new cursor as on
\* the cursor the index was cloned from.
C14_RestoreRoundTrip ==
    last.op = "compute_index" =>
    LET reqs == {Start(k) : k \in 0..(NumLines - 1)} \cup {End(n) : n \in 0..NumLines}
        built == [q \in reqs |-> Seek(Cursor, q)]
    IN \A g \in Granularities :
          LET fresh == RestoreIndex(NewCursor(g), GetIndex(Cursor))
          IN \A q \in reqs : SameLanding(Seek(fresh, q), built[q])

\* C14 witness: a new cursor holds a restored index with more than one entry
\* and has computed nothing itself, and its seek to the last line, which is
\* not a boundary, leaves the reader at the first byte of that line.
C14_Witness ==
    /\ last.op = "restore_index"
    /\ Cardinality(DOMAIN index.index) > 1
    /\ line_count = 0
    /\ (NumLines - 1) % index.granularity # 0
    /\ Seek(Cursor, Start(NumLines - 1)).c.reader = LineStart(NumLines - 1)

\* C15: a stream read or seek that fails during an index computation makes the
\* call return that error, and the call makes no stream operation after the
\* one that failed.
C15_FailurePropagates ==
    last.op = "compute_index_fault" => (last.err /\ last.ops = last.fault)

\* C20: when compute returns an error, the index's line_count and byte_count
\* and the cursor's cached total keep the values they had before the call,
\* and every entry recorded before is kept.
C20_ErrorKeepsCounts ==
    [][(last'.op = "compute_index_fault" /\ last'.err)
          => /\ index'.line_count = index.line_count
             /\ index'.byte_count = index.byte_count
             /\ index'.granularity = index.granularity
             /\ line_count' = line_count
             /\ \A k \in DOMAIN index.index :
                   k \in DOMAIN index'.index /\ index'.index[k] = index.index[k]]_vars

\* C20 witness: a compute_index that failed on a read after it had inserted
\* entries: the index holds keys above the line_count it reports.
C20_Witness ==
    /\ last.op = "compute_index_fault"
    /\ last.err
    /\ last.fault > 2
    /\ \E k \in DOMAIN index.index : k > index.line_count
    /\ line_count = index.line_count

\* The line a request made in the current state asks for.
TargetLine(req) ==
    CASE req.kind = "Start" -> req.n
      [] req.kind = "Current" -> pos + req.n
      [] req.kind = "End" -> ComputeIndex(Cursor).ret - Abs(req.n)

\* The boundary at or below line t that is nearest to it.
NearestBoundary(t) == t - (t % index.granularity)

C17_ComputeFromEmpty ==
    [][(last'.op = "compute_index" /\ DOMAIN index.index = {})
          => /\ last'.ret = NumLines
             /\ index'.line_count = NumLines
             /\ index'.byte_count <= Len(stream)
             /\ Terminated => index'.byte_count = Len(stream)
             /\ Len(stream) = 0 => (index'.byte_count = 0 /\ DOMAIN index'.index = {})]_vars

\* C18: a seek(Current(d)) with d < 0 and |d| above the current line, or a
\* seek(End(n)) with |n| above the total, never returns with the cursor on a
\* line computed by wraparound (a line number of 2^64 - k, held as -k): after
\* every seek that returned, the current line is a line number in range.
C18_NoWraparound ==
    last.op = "seek" => pos >= 0

\* The number of lines of the file that end at or before byte offset rp.
LinesBefore(rp) ==
    Cardinality({i \in 1..Len(stream) : stream[i] = NL /\ i <= rp})
        + (IF rp >= Len(stream) /\ ~Terminated THEN 1 ELSE 0)

\* C19: after every seek that returned on a file of N lines that does not
\* change, also for a requested line past the end, current_line_position() is
\* the number of lines that precede the stream's position, and at most N.
C19_PosMatchesStream ==
    last.op = "seek" => (pos = LinesBefore(reader) /\ pos <= NumLines)

====
